---- MODULE Spec2Model ----
(***************************************************************************)
(* A model of experiments/tf_trainer/common/text_preprocessor.py:          *)
(* TextPreprocessor._get_word_idx_and_embeddings (the vocabulary and       *)
(* embedding-matrix build), the encoder returned by train_preprocess_fn,   *)
(* and the estimator wrapper of create_estimator_with_embedding.           *)
(*                                                                         *)
(* Representation.  A line of the embeddings file is the token sequence    *)
(* line.split() yields for it.  A float is an exact rational <<num, den>>  *)
(* (the mean row needs a division).  A Python Optional is a sequence of    *)
(* length 0 (None) or 1.  A dict is a function on its key set.  A numpy    *)
(* matrix is the sequence of its rows, row r (0-based) at position r + 1.  *)
(***************************************************************************)
EXTENDS Integers, Sequences, FiniteSets, TLC

VARIABLES
  embeddings_file,      \* the lines of the file at embeddings_path
  is_binary_embedding,  \* the is_binary_embedding argument
  max_words,            \* the max_words argument (Optional[int])
  result,               \* outcome of _get_word_idx_and_embeddings
  encoded,              \* last call of the encoder: its inputs and output
  estimator_spec,       \* last call of new_model_fn: what it delegated and returned
  init_runs             \* the calls made by each run of the returned spec's init hook

vars == <<embeddings_file, is_binary_embedding, max_words, result, encoded,
          estimator_spec, init_runs>>

----------------------------------------------------------------------------
(* Bounds and input alphabets *)

MaxLines == 4

\* Lines a file is made of: blank, a 2-token line of numbers (the word2vec
\* header shape), words with 2-component vectors (one word repeated, one
\* stored capitalised), a vector with a non-numeric component, a 2-token
\* word line (a 1-component vector, ragged against the others).
FileLines ==
  { <<>>,
    <<"2", "2">>,
    <<"a", "1", "2">>,
    <<"B", "2", "1">>,
    <<"a", "2", "2">>,
    <<"b", "x", "1">>,
    <<"b", "1">> }

RECURSIVE SeqsUpTo(_, _)
SeqsUpTo(S, n) ==
  IF n = 0 THEN { <<>> }
  ELSE LET shorter == SeqsUpTo(S, n - 1)
       IN  shorter \cup { Append(s, x) : s \in { t \in shorter : Len(t) = n - 1 }, x \in S }

None == <<>>
Some(x) == <<x>>

\* max_words values a caller passes: absent, negative, zero, and limits
\* below, at and above the file lengths.
MaxWordsValues == { None } \cup { Some(n) : n \in -1 .. MaxLines }

\* Values np.random.randn may draw for a padding component.
RandnValues == { <<-1, 1>>, <<3, 1>> }

----------------------------------------------------------------------------
(* Python and numpy helpers *)

\* Python truthiness of an Optional[int]: None and 0 are falsy.
Truthy(opt) == opt # None /\ opt[1] # 0

\* Tokens float('...') accepts, and their values.
FloatTokens == { "1", "2" }
FloatValue(tok) == IF tok = "1" THEN <<1, 1>> ELSE <<2, 1>>

\* np.asarray(tokens, dtype='float32'): defined when every token parses.
CanParseFloats(tokens) == \A i \in 1 .. Len(tokens) : tokens[i] \in FloatTokens
AsFloat32(tokens) == [ i \in 1 .. Len(tokens) |-> FloatValue(tokens[i]) ]

\* A dict key: in 'rb' mode the file yields bytes, in 'r' mode str, and a
\* bytes key never equals a str key.
Key(is_bytes, s) == [ bytes |-> is_bytes, s |-> s ]

\* d[k] = v
DictPut(d, k, v) == [ x \in DOMAIN d \cup { k } |-> IF x = k THEN v ELSE d[x] ]
\* d.get(k, default)
DictGet(d, k, default) == IF k \in DOMAIN d THEN d[k] ELSE default

EmptyDict == [ x \in {} |-> 0 ]

BoolStr(b) == IF b THEN "True" ELSE "False"

NoError == <<>>
IndexError == << "IndexError", "list index out of range" >>
ValueError(tok) == << "ValueError", "could not convert string to float", tok >>
EmbeddingsError(is_binary) ==
  << "Exception", "Embeddings can not be initialized. Is embedding binary = ",
     BoolStr(is_binary), "?" >>

\* The first token of `tokens` that float() rejects.
FirstBadToken(tokens) ==
  tokens[CHOOSE i \in 1 .. Len(tokens) :
           /\ tokens[i] \notin FloatTokens
           /\ \A j \in 1 .. i - 1 : tokens[j] \in FloatTokens]

----------------------------------------------------------------------------
(* _get_word_idx_and_embeddings: the read pass *)

\* `if max_words and idx >= max_words: break`
ShouldBreak(mw, idx) == Truthy(mw) /\ idx >= mw[1]

\* `if len(values) == 2 and idx == 0: continue`
IsHeader(values, idx) == Len(values) = 2 /\ idx = 0

\* `word_to_idx[word] = idx + 1`
WordIndex(idx) == idx + 1

\* The body of the for loop for line `values` at position idx, past the
\* break and header tests.
LoopBody(acc, idx, values, is_binary) ==
  IF Len(values) = 0
  THEN [ acc EXCEPT !.error = IndexError ]                      \* values[0]
  ELSE IF ~CanParseFloats(Tail(values))
  THEN [ acc EXCEPT !.error = ValueError(FirstBadToken(Tail(values))) ]
  ELSE [ word_to_idx     |-> DictPut(acc.word_to_idx, Key(is_binary, Head(values)),
                                     WordIndex(idx)),
         word_embeddings |-> Append(acc.word_embeddings, AsFloat32(Tail(values))),
         error           |-> NoError ]

RECURSIVE ReadLoop(_, _, _, _, _)
ReadLoop(f, idx, mw, is_binary, acc) ==
  IF idx >= Len(f) THEN acc
  ELSE IF ShouldBreak(mw, idx) THEN acc
  ELSE IF IsHeader(f[idx + 1], idx) THEN ReadLoop(f, idx + 1, mw, is_binary, acc)
  ELSE LET next == LoopBody(acc, idx, f[idx + 1], is_binary)
       IN  IF next.error # NoError THEN next
           ELSE ReadLoop(f, idx + 1, mw, is_binary, next)

ReadPass(f, mw, is_binary) ==
  ReadLoop(f, 0, mw, is_binary,
           [ word_to_idx |-> EmptyDict, word_embeddings |-> <<>>, error |-> NoError ])

----------------------------------------------------------------------------
(* _get_word_idx_and_embeddings: padding, unknown row, matrix *)

\* Rational arithmetic on <<num, den>>.
RatAdd(a, b) == << a[1] * b[2] + b[1] * a[2], a[2] * b[2] >>
RatDiv(a, n) == << a[1], a[2] * n >>

RECURSIVE ColumnSum(_, _, _)
ColumnSum(rows, j, upto) ==
  IF upto = 0 THEN <<0, 1>>
  ELSE RatAdd(ColumnSum(rows, j, upto - 1), rows[upto][j])

\* embeddings_matrix.mean(axis=0)
MeanRow(rows) ==
  [ j \in 1 .. Len(rows[1]) |-> RatDiv(ColumnSum(rows, j, Len(rows)), Len(rows)) ]

\* The vectors np.random.randn(n) may return.
RECURSIVE Randn(_)
Randn(n) ==
  IF n = 0 THEN { <<>> }
  ELSE { Append(v, x) : v \in Randn(n - 1), x \in RandnValues }

\* `word_embeddings.insert(0, <padding>)`
InsertPadding(word_embeddings, padding) == <<padding>> \o word_embeddings

\* Variant: the length taken before the padding row was inserted.
UnknownTokenBeforePadding(rows) == Len(rows) - 1

\* `unknown_token = len(word_embeddings)`, evaluated after the insertion.
UnknownToken(rows) == Len(rows)

\* np.asarray(rows, dtype=np.float32) succeeds only on rows of one length.
IsRectangular(rows) == \A i \in 1 .. Len(rows) : Len(rows[i]) = Len(rows[1])

\* Variant: the mean row is not appended.
AppendUnknownRowMissing(rows) == rows

\* `np.append(embeddings_matrix, [embeddings_matrix.mean(axis=0)], axis=0)`
AppendUnknownRow(rows) == Append(rows, MeanRow(rows))

NotBuilt ==
  [ status |-> "none", word_to_idx |-> EmptyDict, embeddings_matrix |-> <<>>,
    unknown_token |-> 0, embedding_size |-> 0, error |-> NoError ]

Raised(err) ==
  [ status |-> "raised", word_to_idx |-> EmptyDict, embeddings_matrix |-> <<>>,
    unknown_token |-> 0, embedding_size |-> 0, error |-> err ]

Returned(w2i, matrix, unknown, size) ==
  [ status |-> "ok", word_to_idx |-> w2i, embeddings_matrix |-> matrix,
    unknown_token |-> unknown, embedding_size |-> size, error |-> NoError ]

\* Variant: a pass with no word row returns a table of a padding and an
\* unknown row of width 0.
OnNoRowsEmptyTable(is_binary) == Returned(EmptyDict, << <<>>, <<>> >>, 1, 0)

\* What follows the read pass when it has left no word row: `word_embeddings[0]`.
OnNoRows(is_binary) == Raised(IndexError)

\* The statements after the loop, for a pass that loaded at least one row.
Assemble(pass, is_binary, padding) ==
  LET rows          == InsertPadding(pass.word_embeddings, padding)
      unknown_token == UnknownToken(rows)
  IN  IF ~IsRectangular(rows) THEN Raised(EmbeddingsError(is_binary))
      ELSE Returned(pass.word_to_idx, AppendUnknownRow(rows), unknown_token,
                    Len(rows[1]))

\* Every outcome of _get_word_idx_and_embeddings(path, is_binary, mw) on
\* file f, one per draw of the random padding row.
GetWordIdxAndEmbeddings(f, is_binary, mw) ==
  LET pass == ReadPass(f, mw, is_binary)
  IN  IF pass.error # NoError THEN { Raised(pass.error) }
      ELSE IF Len(pass.word_embeddings) = 0 THEN { OnNoRows(is_binary) }
      ELSE { Assemble(pass, is_binary, padding) :
               padding \in Randn(Len(pass.word_embeddings[1])) }

----------------------------------------------------------------------------
(* The build as a state machine *)

NoCall == <<>>

Init ==
  /\ embeddings_file \in SeqsUpTo(FileLines, MaxLines)
  /\ is_binary_embedding \in BOOLEAN
  /\ max_words \in MaxWordsValues
  /\ result = NotBuilt
  /\ encoded = NoCall
  /\ estimator_spec = NoCall
  /\ init_runs = <<>>

\* A direct call of the static method with the caller's max_words.
Build ==
  /\ result.status = "none"
  /\ result' \in GetWordIdxAndEmbeddings(embeddings_file, is_binary_embedding, max_words)
  /\ UNCHANGED <<embeddings_file, is_binary_embedding, max_words, encoded,
                 estimator_spec, init_runs>>

Next == Build

Spec == Init /\ [][Next]_vars

----------------------------------------------------------------------------
(* Vocabulary of the properties of the build, stated on the file itself *)

Built == result.status # "none"
Succeeded == result.status = "ok"

Min(a, b) == IF a <= b THEN a ELSE b

\* The first line has exactly two tokens.
HasHeader == Len(embeddings_file) >= 1 /\ Len(embeddings_file[1]) = 2

\* 0-based positions of the lines that are not the header line.
WordLinePositions ==
  { i \in 0 .. Len(embeddings_file) - 1 : ~(i = 0 /\ HasHeader) }

\* 0-based positions of the word lines the pass gets to before the file
\* ends or the max_words test stops it.
LoadedPositions ==
  { i \in WordLinePositions : max_words = None \/ max_words[1] = 0 \/ i < max_words[1] }

WordAt(i) == embeddings_file[i + 1][1]
VectorAt(i) == AsFloat32(Tail(embeddings_file[i + 1]))

DistinctWordsAt(positions) ==
  \A i, j \in positions :
     (embeddings_file[i + 1] # <<>> /\ embeddings_file[j + 1] # <<>> /\ i # j)
        => WordAt(i) # WordAt(j)

IndicesOf(d) == { d[k] : k \in DOMAIN d }

\* C1 (as claimed): after every successful build the indices stored in
\* word_to_idx are exactly 1..N, N the number of entries, no two words share
\* an index and no word has index 0.
C1_IndicesAreOneToN ==
  Succeeded =>
    LET d == result.word_to_idx
    IN  /\ IndicesOf(d) = 1 .. Cardinality(DOMAIN d)
        /\ \A k1, k2 \in DOMAIN d : k1 # k2 => d[k1] # d[k2]
        /\ 0 \notin IndicesOf(d)

C3_UnknownIsLastRow ==
  Succeeded => result.unknown_token = Len(result.embeddings_matrix) - 1

\* C3 witness: a successful build with a header line and a max_words limit
\* that cut the pass short.
C3_Witness ==
  /\ Succeeded
  /\ HasHeader
  /\ max_words # None
  /\ LoadedPositions # WordLinePositions
  /\ result.unknown_token = Len(result.embeddings_matrix) - 1

\* Some line the pass reads has a vector component that is no float, and no
\* earlier line it reads is blank.
BadComponentRead ==
  \E i \in LoadedPositions :
     /\ embeddings_file[i + 1] # <<>>
     /\ ~CanParseFloats(Tail(embeddings_file[i + 1]))
     /\ \A j \in LoadedPositions : j < i => embeddings_file[j + 1] # <<>>

\* C5 (as claimed): a vector component that does not parse as a float makes
\* the build fail with the error naming the binary/text mode flag, and
\* nothing is returned.
C5_ParseFailureNamesMode ==
  (Built /\ BadComponentRead) =>
     /\ result.status = "raised"
     /\ result.error = EmbeddingsError(is_binary_embedding)
     /\ result.word_to_idx = EmptyDict
     /\ result.embeddings_matrix = <<>>

\* C6 (as claimed), on the files whose words are pairwise distinct, where
\* the vocabulary size is the number of words loaded: a supplied max_words
\* leaves exactly min(max_words, number of word lines) words, the header
\* line not counted, and an absent max_words leaves every word line.
C6_VocabularyIsMinOfLimit ==
  (Succeeded /\ DistinctWordsAt(WordLinePositions)) =>
     Cardinality(DOMAIN result.word_to_idx) =
        IF max_words = None THEN Cardinality(WordLinePositions)
        ELSE Min(max_words[1], Cardinality(WordLinePositions))

\* C7: a read pass that leaves no word row (empty file, header only, or a
\* max_words limit that stops it first) makes the build fail and return
\* nothing, and no returned matrix is only a padding and an unknown row.
C7_NoRowsFails ==
  /\ (Built /\ LoadedPositions = {}) =>
        /\ result.status = "raised"
        /\ result.error = IndexError
        /\ result.word_to_idx = EmptyDict
        /\ result.embeddings_matrix = <<>>
  /\ Succeeded => Len(result.embeddings_matrix) >= 3

\* C7 witness: a file with word lines whose build failed because max_words
\* stopped the pass right after the header.
C7_Witness ==
  /\ result.status = "raised"
  /\ HasHeader
  /\ Len(embeddings_file) >= 2
  /\ max_words = Some(1)
  /\ LoadedPositions = {}

\* C10 (as claimed): after every successful build each word of word_to_idx
\* indexes the row holding the vector of one of its own lines: not the
\* padding row, not the unknown row, not another word's vector.
C10_RowsAligned ==
  Succeeded =>
    \A k \in DOMAIN result.word_to_idx :
       LET r == result.word_to_idx[k]
       IN  /\ r # 0
           /\ r # result.unknown_token
           /\ r + 1 <= Len(result.embeddings_matrix)
           /\ \E i \in LoadedPositions :
                 /\ WordAt(i) = k.s
                 /\ result.embeddings_matrix[r + 1] = VectorAt(i)

----------------------------------------------------------------------------
(* TextPreprocessor objects: __init__, train_preprocess_fn *)

MaxObjectLines == 2
MaxTokens == 2

\* Tokens a tokenizer may return: a stored word, its upper-case form, a word
\* stored capitalised, and a word no file holds.
Tokens == { "a", "A", "B", "zz" }

\* str.lower() on the tokens and words of the model.
Lower(w) == IF w = "A" THEN "a" ELSE IF w = "B" THEN "b" ELSE w

\* The state before TextPreprocessor(embeddings_path, is_binary_embedding):
\* __init__ passes no max_words.
InitObject ==
  /\ embeddings_file \in SeqsUpTo(FileLines, MaxObjectLines)
  /\ is_binary_embedding \in BOOLEAN
  /\ max_words = None
  /\ result = NotBuilt
  /\ encoded = NoCall
  /\ estimator_spec = NoCall
  /\ init_runs = <<>>

\* TextPreprocessor.__init__
Construct ==
  /\ result.status = "none"
  /\ result' \in GetWordIdxAndEmbeddings(embeddings_file, is_binary_embedding, None)
  /\ UNCHANGED <<embeddings_file, is_binary_embedding, max_words, encoded,
                 estimator_spec, init_runs>>

\* Variant: the lowercase flag is ignored.
TokenizeNoLowercase(words, lowercase, w2i, unknown) ==
  [ i \in 1 .. Len(words) |-> DictGet(w2i, Key(FALSE, words[i]), unknown) ]

\* _tokenize, past the tokenizer call: the indices of the tokenizer's words.
\* The words are str, so they are looked up as str keys.
Tokenize(words, lowercase, w2i, unknown) ==
  LET ws == IF lowercase THEN [ i \in 1 .. Len(words) |-> Lower(words[i]) ] ELSE words
  IN  [ i \in 1 .. Len(ws) |-> DictGet(w2i, Key(FALSE, ws[i]), unknown) ]

\* A call of the function train_preprocess_fn(tokenizer, lowercase) returned,
\* on a text the tokenizer splits into `words`.
PreprocessFn ==
  /\ result.status = "ok"
  /\ \E words \in SeqsUpTo(Tokens, MaxTokens), lowercase \in BOOLEAN :
        encoded' = [ words     |-> words,
                     lowercase |-> lowercase,
                     ids       |-> Tokenize(words, lowercase, result.word_to_idx,
                                            result.unknown_token) ]
  /\ UNCHANGED <<embeddings_file, is_binary_embedding, max_words, result,
                 estimator_spec, init_runs>>

NextEncoder == Construct \/ PreprocessFn

SpecEncoder == InitObject /\ [][NextEncoder]_vars

\* C4: the encoder yields one integer per tokenizer word, in order: the
\* word's index when the word (lowercased if lowercase is set) is a key of
\* word_to_idx, the unknown-token index otherwise; no word gives no integer.
C4_EncodesEachToken ==
  encoded # NoCall =>
    /\ Len(encoded.ids) = Len(encoded.words)
    /\ \A i \in 1 .. Len(encoded.words) :
          LET t == IF encoded.lowercase THEN Lower(encoded.words[i])
                   ELSE encoded.words[i]
              k == [ bytes |-> FALSE, s |-> t ]
          IN  encoded.ids[i] = IF k \in DOMAIN result.word_to_idx
                               THEN result.word_to_idx[k]
                               ELSE result.unknown_token

\* C4 witness: with lowercase set, "A" encoded to the index of the stored
\* "a" and an absent word to the unknown index.
C4_Witness ==
  /\ encoded # NoCall
  /\ encoded.lowercase
  /\ encoded.words = << "A", "zz" >>
  /\ [ bytes |-> FALSE, s |-> "a" ] \in DOMAIN result.word_to_idx
  /\ encoded.ids = << result.word_to_idx[[ bytes |-> FALSE, s |-> "a" ]],
                      result.unknown_token >>
  /\ encoded.ids[1] # result.unknown_token

----------------------------------------------------------------------------
(* create_estimator_with_embedding: new_model_fn and the composed init hook *)

MaxInitRuns == 2

\* tf.estimator.ModeKeys
TRAIN == "train"
EVAL == "eval"
PREDICT == "infer"
Modes == { TRAIN, EVAL, PREDICT }

\* The text_feature_name the estimator was wrapped with, and another
\* feature of the input.
TextFeatureName == "text"
OtherFeatureName == "meta"

\* Token-index tensors a caller feeds for the text feature: empty, the
\* padding index, a word row followed by the unknown row.
IdTensors == { <<>>, <<0>>, <<1, result.unknown_token>> }

\* features arguments: the text feature alone, with another feature, or
\* the other feature alone.
FeatureArgs ==
  { [ x \in { TextFeatureName } |-> ids ] : ids \in IdTensors }
    \cup { [ x \in { TextFeatureName, OtherFeatureName } |->
               IF x = TextFeatureName THEN ids ELSE <<7>> ] : ids \in IdTensors }
    \cup { [ x \in { OtherFeatureName } |-> <<7>> ] }

\* labels arguments: None (what predict passes), an empty dict, one label
\* with a value per example.
LabelArgs == { None, Some(EmptyDict), Some([ x \in { "label" } |-> <<0, 1>> ]) }

\* tf.nn.embedding_lookup(embeddings, ids): the rows ids name (0-based).
EmbeddingLookup(embeddings, ids) == [ i \in 1 .. Len(ids) |-> embeddings[ids[i] + 1] ]

\* tf.expand_dims(v, -1) on a vector.
ExpandDims(v) == [ i \in 1 .. Len(v) |-> << v[i] >> ]

\* Variant: the input features with the text feature replaced.
NewFeaturesPassThrough(features, word_embeddings) ==
  [ x \in DOMAIN features |->
      IF x = TextFeatureName THEN word_embeddings ELSE features[x] ]

\* `new_features = {text_feature_name: word_embeddings}`
NewFeatures(features, word_embeddings) ==
  [ x \in { TextFeatureName } |-> word_embeddings ]

\* `if mode != PREDICT: labels = {k: tf.expand_dims(v, -1) for k, v in labels.items()}`
NewLabels(labels, mode) ==
  IF mode # PREDICT
  THEN Some([ k \in DOMAIN labels[1] |-> ExpandDims(labels[1][k]) ])
  ELSE labels

\* new_model_fn(features, labels, mode, params, config), old_model_fn being
\* a model whose spec has a scaffold init_fn iff original_init_fn.
NewModelFn(features, labels, mode, original_init_fn, embeddings) ==
  LET given == [ features |-> features, labels |-> labels, mode |-> mode ]
  IN  IF TextFeatureName \notin DOMAIN features
      THEN [ status |-> "raised", error |-> "KeyError", given |-> given,
             delegated |-> NoCall, original_init_fn |-> FALSE ]
      ELSE IF mode # PREDICT /\ labels = None
      THEN [ status |-> "raised", error |-> "AttributeError", given |-> given,
             delegated |-> NoCall, original_init_fn |-> FALSE ]
      ELSE [ status |-> "ok", error |-> "", given |-> given,
             delegated |->
               [ features |-> NewFeatures(features,
                                EmbeddingLookup(embeddings, features[TextFeatureName])),
                 labels   |-> NewLabels(labels, mode),
                 mode     |-> mode ],
             original_init_fn |-> original_init_fn ]

\* Variant: the original hook is called before the embedding initializer.
NewInitFnOriginalFirst(original_init_fn) ==
  (IF original_init_fn THEN << "estimator_spec.scaffold.init_fn" >> ELSE <<>>)
     \o << "init_fn" >>

\* The calls new_init_fn(scaffold, sess) makes, in order: "init_fn" is the
\* embedding initializer word_embeddings returned, which feeds
\* _embeddings_matrix to the embeddings variable.
NewInitFn(original_init_fn) ==
  << "init_fn" >>
     \o (IF original_init_fn THEN << "estimator_spec.scaffold.init_fn" >> ELSE <<>>)

\* The estimator calls the wrapped model_fn.
ModelFn ==
  /\ result.status = "ok"
  /\ \E features \in FeatureArgs, labels \in LabelArgs, mode \in Modes,
        original_init_fn \in BOOLEAN :
        estimator_spec' = NewModelFn(features, labels, mode, original_init_fn,
                                     result.embeddings_matrix)
  /\ init_runs' = <<>>
  /\ UNCHANGED <<embeddings_file, is_binary_embedding, max_words, result, encoded>>

\* A session is created from the returned spec's scaffold: its init_fn runs.
RunInitFn ==
  /\ estimator_spec # NoCall
  /\ estimator_spec.status = "ok"
  /\ Len(init_runs) < MaxInitRuns
  /\ init_runs' = Append(init_runs, NewInitFn(estimator_spec.original_init_fn))
  /\ UNCHANGED <<embeddings_file, is_binary_embedding, max_words, result, encoded,
                 estimator_spec>>

NextAdapter == Construct \/ ModelFn \/ RunInitFn

SpecAdapter == InitObject /\ [][NextAdapter]_vars

CountOf(run, name) == Cardinality({ i \in 1 .. Len(run) : run[i] = name })

\* C8: every run of the returned spec's init hook calls the embedding
\* initializer first and exactly once, then the original spec's init hook
\* exactly once if it declared one, and nothing else.
C8_InitHookComposed ==
  \A r \in 1 .. Len(init_runs) :
     LET run == init_runs[r]
         original == IF estimator_spec.original_init_fn THEN 1 ELSE 0
     IN  /\ Len(run) = 1 + original
         /\ run[1] = "init_fn"
         /\ CountOf(run, "init_fn") = 1
         /\ CountOf(run, "estimator_spec.scaffold.init_fn") = original

\* C8 witness: the hook of a spec whose original declared an init hook has
\* run twice, the second run again calling both in order.
C8_Witness ==
  /\ Len(init_runs) = 2
  /\ estimator_spec.original_init_fn
  /\ init_runs[2] = << "init_fn", "estimator_spec.scaffold.init_fn" >>

Delegated == estimator_spec # NoCall /\ estimator_spec.status = "ok"

\* The labels the claim expects the original model to get.
ExpectedLabels ==
  LET given == estimator_spec.given
  IN  IF given.mode = PREDICT THEN given.labels
      ELSE Some([ k \in DOMAIN given.labels[1] |->
                    [ i \in 1 .. Len(given.labels[1][k]) |-> << given.labels[1][k][i] >> ] ])

\* The embedding vectors of the given text feature.
ExpectedVectors ==
  LET ids == estimator_spec.given.features[TextFeatureName]
  IN  [ i \in 1 .. Len(ids) |-> result.embeddings_matrix[ids[i] + 1] ]

\* C9 (as claimed): in every mode the original model gets the input
\* features with the text feature replaced by its embedding vectors and
\* every other feature unchanged, and the labels unchanged in predict mode
\* and with a trailing unit dimension otherwise.
C9_OtherFeaturesPassThrough ==
  Delegated =>
    LET given == estimator_spec.given
        got   == estimator_spec.delegated
    IN  /\ DOMAIN got.features = DOMAIN given.features
        /\ got.features[TextFeatureName] = ExpectedVectors
        /\ \A x \in DOMAIN given.features \ { TextFeatureName } :
              got.features[x] = given.features[x]
        /\ got.mode = given.mode
        /\ got.labels = ExpectedLabels

\* C9 (amended): in every mode the original model gets a features mapping
\* holding the text feature alone, as its embedding vectors; no other input
\* feature is passed on; the labels are unchanged in predict mode and have a
\* trailing unit dimension otherwise.
C9_OnlyTextFeatureDelegated ==
  Delegated =>
    LET given == estimator_spec.given
        got   == estimator_spec.delegated
    IN  /\ DOMAIN got.features = { TextFeatureName }
        /\ got.features[TextFeatureName] = ExpectedVectors
        /\ got.mode = given.mode
        /\ got.labels = ExpectedLabels

\* C9 witness: a training call with a second input feature and a label.
C9_Witness ==
  /\ Delegated
  /\ estimator_spec.given.mode = TRAIN
  /\ OtherFeatureName \in DOMAIN estimator_spec.given.features
  /\ Len(estimator_spec.given.features[TextFeatureName]) = 2
  /\ estimator_spec.given.labels = Some([ x \in { "label" } |-> <<0, 1>> ])
  /\ estimator_spec.delegated.labels = Some([ x \in { "label" } |-> << <<0>>, <<1>> >> ])
  /\ DOMAIN estimator_spec.delegated.features = { TextFeatureName }

====
